---- MODULE Spec2Model ----
(***************************************************************************)
(* REINFORCE with a learned baseline for a one-asset investment problem:   *)
(* the training script REINFORCE_BASELINE_PolicyNet5_proof.py.             *)
(*                                                                         *)
(* The state is the script's globals (the episode loop's variables), the   *)
(* Agent's buffers and histories, and the two networks' parameters,        *)
(* gradients and optimizer step counts.  Reals are modelled in integer     *)
(* units: wealth, rewards, values and log-probabilities are integers, the  *)
(* pseudo-random draws come from small integer sets, and each network is   *)
(* one integer parameter with a fixed forward function.  `draws` and `ref` *)
(* are history variables: the draws the current episode has consumed, and  *)
(* the outcome of the run's first rollout.                                 *)
(***************************************************************************)
EXTENDS Integers, Sequences, FiniteSets, TLC

VARIABLES
    pc,              \* position of the script
    epoch,           \* for epoch in range(EPOCHS)
    i,               \* for i in range(N)
    curr_wealth, new_wealth, episode_wealths,
    episode_scores, episode_values,
    reward_memory, action_memory, value_memory, mean_memory, sd_memory,
    mean, sd, reward, score,                 \* agent.mean, .sd, .reward, .score
    theta, phi,                              \* policy / value parameters
    policy_grad, value_grad,                 \* .grad of the parameters
    policy_steps, value_steps,               \* optimizer.step() calls so far
    G, deltas, val_loss, policy_loss,        \* locals of learn()
    draws,                                   \* history: draws of this episode
    ref                                      \* history: the first rollout

vars == << pc, epoch, i, curr_wealth, new_wealth, episode_wealths,
           episode_scores, episode_values, reward_memory, action_memory,
           value_memory, mean_memory, sd_memory, mean, sd, reward, score,
           theta, phi, policy_grad, value_grad, policy_steps, value_steps,
           G, deltas, val_loss, policy_loss, draws, ref >>

----------------------------------------------------------------------------
(* Constants of the script, in the model's integer units.                  *)

\* N = math.floor(T/dt) with T = 2*dt
N == 2

\* EPOCHS = 5000 in the script; the model runs this many episodes
EPOCHS == 2

\* lam, the entropy temperature (one reward unit per entropy unit)
lam == 1

\* sigma, the volatility (one wealth unit per action unit and shock unit)
sigma == 1

\* rho*dt, the drift of one step, in shock units
rho_dt == 1

\* np.sqrt(dt), the scale of the noise of one step, in shock units
sqrt_dt == 2

\* np.random.uniform(0.0, 1.5) draws from 0..MaxX0 (the lower end is 0)
MaxX0 == 1

\* the quantised standard normal draw of action_dist.sample()
SampleDraws == {-1, 1}

\* the quantised standard normal draw of np.random.randn()
NoiseDraws == {-1, 0, 1}

UniformDraws == 0..MaxX0

\* float nan: the result of a negative base raised to gamma = 0.5
NaN == -1000

----------------------------------------------------------------------------
(* Pure functions.                                                         *)

\* x**gamma with gamma = 0.5: the integer square root; nan below 0
util(x) ==
    IF x < 0 THEN NaN
    ELSE CHOOSE r \in 0..x : r * r <= x /\ (r + 1) * (r + 1) > x

\* F.softplus: strictly positive, about linear for large inputs
softplus(u) == IF u > 0 THEN u + 1 ELSE 1

\* natural logarithm of a positive scale, rounded down (base 2 units)
RECURSIVE Ln(_)
Ln(s) == IF s <= 1 THEN 0 ELSE 1 + Ln(s \div 2)

\* PolicyNetwork.forward: (mean, sd) for the state [wealth, T - t];
\* the mean is unconstrained, the scale goes through softplus
PolicyMean(th, x, tt) == th + x
PolicySd(th, x, tt) == softplus(th + tt - x)

\* ValueFuncNetwork.forward: the value of the state [wealth, T - t]
ValueForward(ph, x, tt) == ph + x

\* Normal(mean, sd).sample() for the standard normal draw eps
Sample(m, s, eps) == m + s * eps

\* Normal(mean, sd).log_prob(a) = -((a - mean)/sd)^2/2 - log(sd) - const
LogProb(m, s, a) == -(((a - m) \div s) * ((a - m) \div s)) - Ln(s) - 1

\* d log_prob / d theta, through the mean: the direction (a - mean)/sd
DLogProb(m, s, a) == (a - m) \div s

\* Normal(mean, sd).entropy() = 1/2 + log(2 pi)/2 + log(sd); it is negative
\* for a small scale
Entropy(s) == Ln(s) - 1

\* wealth(x, sample) with the noise np.random.randn() = z
wealth(x, sample, z) == x + sigma * sample * (rho_dt + sqrt_dt * z)

\* a clamp that lets a negative wealth through
NoClamp(x) == x

\* if new_wealth < 0: new_wealth = 0
Clamp(x) == IF x < 0 THEN 0 ELSE x

\* a tensor: its value and its derivative in the network's parameter
Tensor(v, d) == [v |-> v, d |-> d]

\* torch.ones(1) where torch.Tensor([0]) is meant
OnesTensor == Tensor(1, 0)

\* torch.Tensor([0]): a constant, outside the computation graph
ZeroTensor == Tensor(0, 0)

\* a padding loop that runs once too often: range(N-i) for range(N-1-i)
RECURSIVE PadLong(_, _, _)
PadLong(s, x, n) == IF n < 0 THEN s ELSE PadLong(Append(s, x), x, n - 1)

\* a padding that repeats agent.reward, as the store before it does
StaleReward == reward

\* agent.store_rewards(0): the reward of a step after ruin
ZeroReward == 0

\* n copies of x appended to s (the padding loop of the ruin branch)
RECURSIVE Pad(_, _, _)
Pad(s, x, n) == IF n <= 0 THEN s ELSE Pad(Append(s, x), x, n - 1)

\* the inner loop of learn: R += reward_memory[k+1] for k in range(j, N),
\* with j and k counted from 0 as in the script
RECURSIVE InnerSum(_, _, _)
InnerSum(rm, k, R) ==
    IF k >= N THEN R ELSE InnerSum(rm, k + 1, R + rm[k + 2])

\* a return that starts at the step's own reward: reward_memory[k]
ReturnFromOwn(rm, j) == InnerSum(rm, j, 0) + rm[j + 1] - rm[N + 1]

\* G[j] for j counted from 0
Return(rm, j) == InnerSum(rm, j, 0)

\* a score read from the last return
ScoreOfLast(g) == g[Len(g)]

\* self.score = G[0]
ScoreOf(g) == g[1]

Min(a, b) == IF a < b THEN a ELSE b

\* sum of f[1..n]
RECURSIVE SumTo(_, _)
SumTo(f, n) == IF n <= 0 THEN 0 ELSE f[n] + SumTo(f, n - 1)

\* for d, x in zip(ds, xs): acc += -d * x.v  (the loss) and its derivative
ZipLoss(ds, xs) ==
    SumTo([k \in 1..Min(Len(ds), Len(xs)) |-> -ds[k] * xs[k].v],
          Min(Len(ds), Len(xs)))
ZipGrad(ds, xs) ==
    SumTo([k \in 1..Min(Len(ds), Len(xs)) |-> -ds[k] * xs[k].d],
          Min(Len(ds), Len(xs)))

Sgn(x) == IF x > 0 THEN 1 ELSE IF x < 0 THEN -1 ELSE 0

\* optim.Adam's step for one parameter: one learning-rate unit against the
\* sign of the gradient, nothing for a zero gradient
AdamStep(p, g) == p - Sgn(g)

----------------------------------------------------------------------------
Init ==
    /\ pc = "start"
    /\ epoch = 0
    /\ i = 0
    /\ curr_wealth = 0
    /\ new_wealth = 0
    /\ episode_wealths = << >>
    /\ episode_scores = << >>
    /\ episode_values = << >>
    /\ reward_memory = << >>
    /\ action_memory = << >>
    /\ value_memory = << >>
    /\ mean_memory = << >>
    /\ sd_memory = << >>
    /\ mean = 0 /\ sd = 0 /\ reward = 0 /\ score = 0
    /\ theta = 1
    /\ phi = 0
    /\ policy_grad = 0
    /\ value_grad = 0
    /\ policy_steps = 0
    /\ value_steps = 0
    /\ G = << >>
    /\ deltas = << >>
    /\ val_loss = 0
    /\ policy_loss = 0
    /\ draws = << >>
    /\ ref = << >>

agentVars == << reward_memory, action_memory, value_memory, mean_memory,
                sd_memory, mean, sd, reward, score >>
netVars == << theta, phi, policy_grad, value_grad, policy_steps, value_steps >>
learnVars == << G, deltas, val_loss, policy_loss >>

\* for epoch in range(EPOCHS): episode_wealths = []; curr_wealth = uniform
StartEpisode ==
    /\ pc = "start"
    /\ IF epoch >= EPOCHS
       THEN /\ pc' = "done"
            /\ UNCHANGED << i, curr_wealth, episode_wealths, draws >>
       ELSE \E x0 \in UniformDraws :
            /\ pc' = "step"
            /\ i' = 0
            /\ curr_wealth' = x0
            /\ episode_wealths' = << >>
            /\ draws' = << x0 >>
    /\ UNCHANGED << epoch, new_wealth, episode_scores, episode_values,
                    agentVars, netVars, learnVars, ref >>

\* one pass of the body of `for i in range(N)`
Step ==
    /\ pc = "step"
    /\ \E eps \in SampleDraws, z \in NoiseDraws :
        LET tt     == N - i
            value  == Tensor(ValueForward(phi, curr_wealth, tt), 1)
            m      == PolicyMean(theta, curr_wealth, tt)
            s      == PolicySd(theta, curr_wealth, tt)
            action == Sample(m, s, eps)
            lp     == Tensor(LogProb(m, s, action), DLogProb(m, s, action))
            rew    == lam * Entropy(s)
            moved  == wealth(curr_wealth, action, z)
            nw     == Clamp(moved)
            ruin   == nw = 0
        IN  /\ episode_wealths' = Append(episode_wealths, curr_wealth)
            /\ mean' = m
            /\ sd' = s
            /\ reward' = rew
            /\ action_memory' = Append(action_memory, lp)
            /\ draws' = draws \o << eps, z >>
            /\ IF i = 0
               THEN /\ episode_values' = Append(episode_values, value.v)
                    /\ sd_memory' = Append(sd_memory, s)
                    /\ mean_memory' = Append(mean_memory, m)
               ELSE UNCHANGED << episode_values, sd_memory, mean_memory >>
            /\ new_wealth' = nw
            /\ curr_wealth' = nw
            /\ reward_memory' =
                   IF ruin
                   THEN Pad(Append(reward_memory, rew), ZeroReward, N - 1 - i)
                   ELSE Append(reward_memory, rew)
            /\ value_memory' =
                   IF ruin
                   THEN Pad(Append(value_memory, value), ZeroTensor, N - 1 - i)
                   ELSE Append(value_memory, value)
            /\ IF ruin \/ i + 1 >= N
               THEN pc' = "terminal" /\ i' = i
               ELSE pc' = "step" /\ i' = i + 1
    /\ UNCHANGED << epoch, episode_scores, score, netVars, learnVars, ref >>

\* agent.store_rewards(util(new_wealth))
Terminal ==
    /\ pc = "terminal"
    /\ reward_memory' = Append(reward_memory, util(new_wealth))
    /\ ref' = IF epoch = 0
              THEN << [theta |-> theta, phi |-> phi, draws |-> draws,
                       wealths |-> Append(episode_wealths, curr_wealth),
                       rewards |-> reward_memory',
                       values |-> value_memory,
                       logprobs |-> action_memory] >>
              ELSE ref
    /\ pc' = "zero_grad"
    /\ UNCHANGED << epoch, i, curr_wealth, new_wealth, episode_wealths,
                    episode_scores, episode_values, action_memory,
                    value_memory, mean_memory, sd_memory, mean, sd, reward,
                    score, netVars, learnVars, draws >>

\* a learn that does not zero the gradients: backward accumulates
LearnKeepsGrad ==
    /\ pc = "zero_grad"
    /\ pc' = "returns"
    /\ UNCHANGED << epoch, i, curr_wealth, new_wealth, episode_wealths,
                    episode_scores, episode_values, agentVars, netVars,
                    learnVars, draws, ref >>

\* learn: self.policy.optimizer.zero_grad(); self.value.optimizer.zero_grad()
LearnZeroGrad ==
    /\ pc = "zero_grad"
    /\ policy_grad' = 0
    /\ value_grad' = 0
    /\ pc' = "returns"
    /\ UNCHANGED << epoch, i, curr_wealth, new_wealth, episode_wealths,
                    episode_scores, episode_values, agentVars, theta, phi,
                    policy_steps, value_steps, learnVars, draws, ref >>

\* learn: G, deltas and self.score; an index past a buffer's end raises
\* IndexError and ends the script
LearnReturns ==
    /\ pc = "returns"
    /\ IF Len(reward_memory) < N + 1 \/ Len(value_memory) < N
       THEN /\ pc' = "error"
            /\ UNCHANGED << G, deltas, score >>
       ELSE /\ G' = [j \in 1..N |-> Return(reward_memory, j - 1)]
            /\ deltas' = [j \in 1..N |-> G'[j] - value_memory[j].v]
            /\ score' = ScoreOf(G')
            /\ pc' = "backward"
    /\ UNCHANGED << epoch, i, curr_wealth, new_wealth, episode_wealths,
                    episode_scores, episode_values, reward_memory,
                    action_memory, value_memory, mean_memory, sd_memory,
                    mean, sd, reward, netVars, val_loss, policy_loss,
                    draws, ref >>

\* learn: val_loss, policy_loss, total_loss.backward()
LearnBackward ==
    /\ pc = "backward"
    /\ val_loss' = ZipLoss(deltas, value_memory)
    /\ policy_loss' = ZipLoss(deltas, action_memory)
    /\ value_grad' = value_grad + ZipGrad(deltas, value_memory)
    /\ policy_grad' = policy_grad + ZipGrad(deltas, action_memory)
    /\ pc' = "opt_step"
    /\ UNCHANGED << epoch, i, curr_wealth, new_wealth, episode_wealths,
                    episode_scores, episode_values, agentVars, theta, phi,
                    policy_steps, value_steps, G, deltas, draws, ref >>

\* learn: self.value.optimizer.step(); self.policy.optimizer.step()
LearnStep ==
    /\ pc = "opt_step"
    /\ phi' = AdamStep(phi, value_grad)
    /\ value_steps' = value_steps + 1
    /\ theta' = AdamStep(theta, policy_grad)
    /\ policy_steps' = policy_steps + 1
    /\ pc' = "reset"
    /\ UNCHANGED << epoch, i, curr_wealth, new_wealth, episode_wealths,
                    episode_scores, episode_values, agentVars, policy_grad,
                    value_grad, learnVars, draws, ref >>

\* a reset that leaves the log-probability buffer as it is
LearnResetKeepsLogProbs ==
    /\ pc = "reset"
    /\ reward_memory' = << >>
    /\ value_memory' = << >>
    /\ G' = << >>
    /\ deltas' = << >>
    /\ val_loss' = 0
    /\ policy_loss' = 0
    /\ pc' = "score"
    /\ UNCHANGED << epoch, i, curr_wealth, new_wealth, episode_wealths,
                    episode_scores, episode_values, action_memory,
                    mean_memory, sd_memory, mean, sd, reward, score, netVars,
                    draws, ref >>

\* a reset that empties every list of the agent, the histories included
LearnResetClearsAll ==
    /\ pc = "reset"
    /\ reward_memory' = << >>
    /\ action_memory' = << >>
    /\ value_memory' = << >>
    /\ mean_memory' = << >>
    /\ sd_memory' = << >>
    /\ G' = << >>
    /\ deltas' = << >>
    /\ val_loss' = 0
    /\ policy_loss' = 0
    /\ pc' = "score"
    /\ UNCHANGED << epoch, i, curr_wealth, new_wealth, episode_wealths,
                    episode_scores, episode_values, mean, sd, reward, score,
                    netVars, draws, ref >>

\* learn: empty caches, and return (the locals die)
LearnReset ==
    /\ pc = "reset"
    /\ reward_memory' = << >>
    /\ action_memory' = << >>
    /\ value_memory' = << >>
    /\ G' = << >>
    /\ deltas' = << >>
    /\ val_loss' = 0
    /\ policy_loss' = 0
    /\ pc' = "score"
    /\ UNCHANGED << epoch, i, curr_wealth, new_wealth, episode_wealths,
                    episode_scores, episode_values, mean_memory, sd_memory,
                    mean, sd, reward, score, netVars, draws, ref >>

\* episode_scores = np.append(episode_scores, agent.score); next epoch
AppendScore ==
    /\ pc = "score"
    /\ episode_scores' = Append(episode_scores, score)
    /\ epoch' = epoch + 1
    /\ pc' = "start"
    /\ UNCHANGED << i, curr_wealth, new_wealth, episode_wealths,
                    episode_values, agentVars, netVars, learnVars, draws,
                    ref >>

Next ==
    \/ StartEpisode
    \/ Step
    \/ Terminal
    \/ LearnZeroGrad
    \/ LearnReturns
    \/ LearnBackward
    \/ LearnStep
    \/ LearnReset
    \/ AppendScore

Spec == Init /\ [][Next]_vars

----------------------------------------------------------------------------
(* learn() on synthetic buffers: any rewards of length N+1, any value      *)
(* estimates of length N, and the log-probabilities of 1..N executed       *)
(* steps.                                                                  *)

RewardVals == {-1, 0, 2}
ValueVals == {0, 1}

InitLearn ==
    /\ pc = "zero_grad"
    /\ epoch = 0
    /\ i = 0
    /\ curr_wealth = 0
    /\ new_wealth = 0
    /\ episode_wealths = << >>
    /\ episode_scores = << >>
    /\ episode_values = << >>
    /\ reward_memory \in [1..(N + 1) -> RewardVals]
    /\ \E n \in 1..N : action_memory \in [1..n -> {Tensor(-2, 1)}]
    /\ value_memory \in [1..N -> {Tensor(v, 1) : v \in ValueVals}]
    /\ mean_memory = << >>
    /\ sd_memory = << >>
    /\ mean = 0 /\ sd = 0 /\ reward = 0 /\ score = 0
    /\ theta = 1
    /\ phi = 0
    /\ policy_grad = 0
    /\ value_grad = 0
    /\ policy_steps = 0
    /\ value_steps = 0
    /\ G = << >>
    /\ deltas = << >>
    /\ val_loss = 0
    /\ policy_loss = 0
    /\ draws = << >>
    /\ ref = << >>

NextLearn ==
    \/ LearnZeroGrad
    \/ LearnReturns
    \/ LearnBackward
    \/ LearnStep
    \/ LearnReset

SpecLearn == InitLearn /\ [][NextLearn]_vars

----------------------------------------------------------------------------
(* Definitions the claims are stated with.                                 *)

\* the sum of the rewards stored at indices lo..hi, counted from 0
RECURSIVE RewardSum(_, _, _)
RewardSum(rm, lo, hi) ==
    IF lo > hi THEN 0 ELSE rm[hi + 1] + RewardSum(rm, lo, hi - 1)

\* learn() is about to start on the finished rollout
AtLearn == pc = "zero_grad"

\* G and deltas of this episode are computed and not yet discarded
HasReturns == pc \in {"backward", "opt_step", "reset"}

\* the number of executed steps of the current episode
Executed == Len(episode_wealths)

\* at learn time: the wealth reached 0 after the transition of the last
\* executed step, which is step Executed - 1
Ruined == curr_wealth = 0 /\ Executed >= 1

----------------------------------------------------------------------------
(* C1: in learn, for every step j in 0..N-1 and every content of the      *)
(* reward buffer of length N+1, G[j] is the sum of the stored rewards at   *)
(* indices j+1..N: the reward at index j is excluded, the terminal reward  *)
(* at index N is included.                                                 *)
C1_ReturnIsSuffixSum ==
    HasReturns =>
        /\ Len(G) = N
        /\ \A j \in 0..(N - 1) : G[j + 1] = RewardSum(reward_memory, j + 1, N)

\* returns computed from a buffer whose reward at index 0 differs from its
\* terminal reward, so that an off-by-one sum would show
C1_Witness ==
    /\ HasReturns
    /\ reward_memory[1] = 2
    /\ reward_memory[N + 1] = -1
    /\ G[1] = RewardSum(reward_memory, 1, N)

(* C2: when the wealth reaches 0 after the transition of step i, then at   *)
(* the start of learn every stored reward and value estimate at indices    *)
(* i+1..N-1 is exactly 0 and the terminal reward at index N is utility(0). *)
C2_RuinPadsZero ==
    (AtLearn /\ Ruined) =>
        /\ Len(reward_memory) = N + 1
        /\ Len(value_memory) = N
        /\ \A k \in Executed..(N - 1) :
               reward_memory[k + 1] = 0 /\ value_memory[k + 1].v = 0
        /\ reward_memory[N + 1] = util(0)

\* ruin at step 0 of a later episode: index 1 is padded
C2_Witness ==
    /\ AtLearn
    /\ Ruined
    /\ Executed < N
    /\ epoch = 1
    /\ reward_memory[1] # 0

(* C4: the trajectory never exceeds N steps, and when learn starts the     *)
(* value buffer holds exactly N entries, the reward buffer exactly N+1     *)
(* (the return loop never reads outside it) and the log-probability buffer *)
(* at most N, with or without ruin.                                        *)
C4_FixedLength ==
    /\ Executed <= N
    /\ pc # "error"
    /\ AtLearn =>
        /\ Len(value_memory) = N
        /\ Len(reward_memory) = N + 1
        /\ Len(action_memory) = Executed
        /\ Len(action_memory) <= N

\* a ruined episode: fewer log-probabilities than values
C4_Witness ==
    /\ AtLearn
    /\ Len(action_memory) < Len(value_memory)
    /\ Len(value_memory) = N

(* C3: zero wealth is absorbing within an episode: at every point of a     *)
(* rollout at which the current wealth is 0 (the initial wealth may be 0), *)
(* the wealth stays 0 for the rest of that episode.                        *)
C3_ZeroAbsorbing ==
    [][(pc \in {"step", "terminal", "zero_grad", "returns", "backward",
                "opt_step", "reset"} /\ curr_wealth = 0)
        => curr_wealth' = 0]_vars

(* C5: a rollout is a function of the parameters and of its draws: a       *)
(* rollout that starts from the parameters of the run's first rollout and  *)
(* consumes the same draws has the same wealth trajectory and the same     *)
(* reward, value and log-probability buffers; the draws are the initial    *)
(* wealth and then, per executed step, one action sample and one noise     *)
(* draw, and none after ruin.                                              *)
C5_SameAsFirst ==
    /\ ref # << >>
    /\ theta = ref[1].theta
    /\ phi = ref[1].phi
    /\ draws = ref[1].draws

\* C5: same parameters and same draws as the first rollout give the same
\* trajectory and buffers; 1 + 2 draws per executed step, none after ruin
C5_Deterministic ==
    /\ draws = << >> \/ Len(draws) = 1 + 2 * Executed
    /\ Len(draws) <= 1 + 2 * N
    /\ (pc \in {"zero_grad", "returns", "backward", "opt_step"}
            /\ C5_SameAsFirst) =>
        /\ Append(episode_wealths, curr_wealth) = ref[1].wealths
        /\ reward_memory = ref[1].rewards
        /\ value_memory = ref[1].values
        /\ action_memory = ref[1].logprobs

\* a later rollout with the parameters and the draws of the first
C5_Witness ==
    /\ AtLearn
    /\ epoch >= 1
    /\ C5_SameAsFirst
    /\ reward_memory = ref[1].rewards

(* C6: for every episode e, the score set by learn and appended to the     *)
(* score history at position e is Return(0) of that episode: the sum of    *)
(* the episode's stored rewards at indices 1..N.                           *)
C6_ScoreState ==
    /\ HasReturns => score = RewardSum(reward_memory, 1, N)
    /\ Len(episode_scores) = IF pc = "done" THEN EPOCHS ELSE epoch
    /\ (pc \in {"start", "done"} /\ epoch >= 1) => episode_scores[epoch] = score

C6_ScoreStep ==
    /\ pc \in {"reset", "score"} => score' = score
    /\ \A e \in 1..Len(episode_scores) :
           /\ Len(episode_scores') >= e
           /\ episode_scores'[e] = episode_scores[e]

\* C6: the score is Return(0) of its episode and is appended at position e
C6_ScoreIsReturn0 == [] C6_ScoreState /\ [][C6_ScoreStep]_vars

\* the second episode's score is appended, and differs from its last return
C6_Witness ==
    /\ pc = "start"
    /\ epoch = 2
    /\ episode_scores[2] = score
    /\ episode_scores[2] # episode_scores[1]

(* C7: in every episode the parameters of both networks are updated        *)
(* exactly once, after the rollout is complete (terminal reward appended)  *)
(* and before the next episode's first step; in learn the gradients are    *)
(* zeroed, then one backward pass, then one optimizer step per network,    *)
(* then the buffers are reset.  No parameter changes during a rollout.     *)
C7_UpdateState ==
    /\ pc \in {"start", "step", "terminal", "zero_grad", "returns",
               "backward", "opt_step"} =>
           policy_steps = epoch /\ value_steps = epoch
    /\ pc \in {"reset", "score"} =>
           policy_steps = epoch + 1 /\ value_steps = epoch + 1
    /\ pc \in {"returns", "backward"} => policy_grad = 0 /\ value_grad = 0
    /\ pc = "opt_step" =>
           /\ value_grad = ZipGrad(deltas, value_memory)
           /\ policy_grad = ZipGrad(deltas, action_memory)
           /\ Len(reward_memory) = N + 1

C7_UpdateStep ==
    (theta' # theta \/ phi' # phi \/ policy_steps' # policy_steps
        \/ value_steps' # value_steps) =>
    /\ pc = "opt_step"
    /\ pc' = "reset"
    /\ Len(reward_memory) = N + 1
    /\ reward_memory' = reward_memory
    /\ policy_steps' = policy_steps + 1
    /\ value_steps' = value_steps + 1

\* C7: one update of each network per episode, inside learn, in the order
\* zero gradients, backward, optimizer steps, reset
C7_UpdateOncePerEpisode == [] C7_UpdateState /\ [][C7_UpdateStep]_vars

\* the second update, after a first one that moved both parameters
C7_Witness ==
    /\ pc = "reset"
    /\ epoch = 1
    /\ policy_steps = 2
    /\ value_steps = 2
    /\ policy_grad # 0
    /\ value_grad # 0

(* C8: the reset clears only the per-episode buffers: after learn the      *)
(* reward, log-probability and value buffers are empty, the histories      *)
(* (mean, scale, value, score) are untouched by the reset and hold one     *)
(* entry per completed episode, the mean, scale and value entry being the  *)
(* one recorded at step 0 of that episode, also when ruin occurs there.    *)
C8_HistoryState ==
    /\ pc \in {"score", "start", "done"} =>
           reward_memory = << >> /\ action_memory = << >>
               /\ value_memory = << >>
    /\ pc \in {"start", "done"} =>
           /\ Len(mean_memory) = epoch
           /\ Len(sd_memory) = epoch
           /\ Len(episode_values) = epoch
           /\ Len(episode_scores) = epoch
    /\ (pc \in {"terminal", "zero_grad", "returns", "backward", "opt_step"}
            \/ (pc = "step" /\ i >= 1)) =>
           /\ Len(mean_memory) = epoch + 1
           /\ Len(sd_memory) = epoch + 1
           /\ Len(episode_values) = epoch + 1
           /\ mean_memory[epoch + 1] = PolicyMean(theta, episode_wealths[1], N)
           /\ sd_memory[epoch + 1] = PolicySd(theta, episode_wealths[1], N)
           /\ episode_values[epoch + 1] =
                  ValueForward(phi, episode_wealths[1], N)

C8_Kept(h) == \A e \in 1..Len(h) : Len(h') >= e /\ h'[e] = h[e]

C8_HistoryStep ==
    /\ pc = "reset" =>
           UNCHANGED << mean_memory, sd_memory, episode_values,
                        episode_scores >>
    /\ C8_Kept(mean_memory)
    /\ C8_Kept(sd_memory)
    /\ C8_Kept(episode_values)

\* C8: the reset empties the three buffers and keeps the histories, which
\* hold one step-0 entry per completed episode
C8_ResetKeepsHistories == [] C8_HistoryState /\ [][C8_HistoryStep]_vars

\* after the reset of a second episode that was ruined at step 0
C8_Witness ==
    /\ pc = "score"
    /\ epoch = 1
    /\ Executed = 1
    /\ Len(mean_memory) = 2
    /\ mean_memory[2] # mean_memory[1]
    /\ reward_memory = << >>

(* C9: at learn time the last reward (index N) is utility(final wealth),   *)
(* the final wealth being the clamped wealth after the last executed       *)
(* transition, never negative; every reward at indices 0..N-1 is lambda    *)
(* times the entropy of the policy at that step, or a ruin padding 0.      *)
C9_RewardStream ==
    /\ pc \in {"terminal", "zero_grad"} => new_wealth >= 0
    /\ AtLearn =>
        /\ Len(reward_memory) = N + 1
        /\ curr_wealth >= 0
        /\ new_wealth = curr_wealth
        /\ reward_memory[N + 1] = util(curr_wealth)
        /\ reward_memory[N + 1] # NaN
        /\ \A k \in 0..(N - 1) :
               reward_memory[k + 1] =
                   IF k < Executed
                   THEN lam * Entropy(PolicySd(theta, episode_wealths[k + 1],
                                               N - k))
                   ELSE 0

\* a full episode that ends with a positive payoff and entropy rewards
C9_Witness ==
    /\ AtLearn
    /\ Executed = N
    /\ curr_wealth > 0
    /\ reward_memory[N + 1] > 0
    /\ reward_memory[1] # 0
    /\ reward_memory[N] # 0

(* C10: when the wealth reaches 0 after the transition of step i, then in  *)
(* learn Return(j) = 0 for j in i..N-1 and delta(j) = 0 for j in           *)
(* i+1..N-1; the log-probability buffer has entries for steps 0..i only,   *)
(* each delta(j) in policy_loss is paired with the log-probability sampled *)
(* at step j, and both losses are sums over steps 0..i.                    *)
C10_LogProbAt(j) ==
    LET x == episode_wealths[j + 1]
        m == PolicyMean(theta, x, N - j)
        s == PolicySd(theta, x, N - j)
        a == Sample(m, s, draws[2 + 2 * j])
    IN  Tensor(LogProb(m, s, a), DLogProb(m, s, a))

RECURSIVE C10_Loss(_, _, _)
C10_Loss(ds, xs, n) ==
    IF n <= 0 THEN 0 ELSE -ds[n] * xs[n].v + C10_Loss(ds, xs, n - 1)

\* C10: after ruin at step i the returns from i on and the deltas after i
\* are 0, and the losses are sums over steps 0..i
C10_NoSignalAfterRuin ==
    (HasReturns /\ Ruined) =>
        /\ \A j \in (Executed - 1)..(N - 1) : G[j + 1] = 0
        /\ \A j \in Executed..(N - 1) : deltas[j + 1] = 0
        /\ Len(action_memory) = Executed
        /\ pc \in {"backward", "opt_step"} =>
               \A j \in 0..(Executed - 1) :
                   action_memory[j + 1] = C10_LogProbAt(j)
        /\ pc \in {"opt_step", "reset"} =>
            /\ val_loss = C10_Loss(deltas, value_memory, Executed)
            /\ policy_loss = C10_Loss(deltas, action_memory, Executed)

\* ruin at step 0 with a non-zero advantage at step 0
C10_Witness ==
    /\ pc = "opt_step"
    /\ Ruined
    /\ Executed < N
    /\ deltas[1] # 0
    /\ policy_loss # 0

====
